---- MODULE Spec2Model ----
(***************************************************************************)
(* Product resolution and aggregation core of the newborn-product market   *)
(* research pipeline.                                                      *)
(*                                                                         *)
(* Variant A: main.py + src/matching.py + src/analytics.py                  *)
(*            (posts are grouped by product key, then each group is         *)
(*            resolved against the catalog).                               *)
(* Variant B: data_pipeline.py + src/utils_text.py                          *)
(*            (each post is resolved, then posts are grouped by product id).*)
(*                                                                         *)
(* Values.  A product id is a tagged value [t, v]: t = "int" for a number   *)
(* read from a numeric column, t = "str" for a string; str() keeps v and    *)
(* sets t = "str", and pandas' == never equates a string with a number.     *)
(* A similarity score is kept in tenths of a point (1000 = 100.0): the      *)
(* rapidfuzz scorers return a float in [0, 100].  The scorer is a library   *)
(* outside the repository; its result for a (text, choice) pair is an input *)
(* of the model, fixed for the whole run (the scorer is a pure function),   *)
(* and it is 0 for an empty text.                                          *)
(***************************************************************************)
EXTENDS Integers, Sequences, FiniteSets, TLC

VARIABLES
    variant,          \* "A" or "B": which pipeline runs
    pid_kind,         \* catalog product_id column: "none" (absent), "str", "int"
    catalog_df,       \* sequence of catalog rows [v, blob]
    image_matches,    \* [given, rows]: given = FALSE for None, rows of [key, v]
    sim,              \* scorer results: sim[unit][blob], in tenths
    social_products,  \* variant A: aggregated groups [product_key, post_ids, social_name]
    posts,            \* variant B: post rows
    i,                \* variant A: position of the resolution loop
    match_results,    \* variant A: list of MatchResult built by the loop
    matched,          \* table returned by the resolver
    output,           \* final table
    pc,               \* position in the pipeline
    err,              \* exception that ended the run, or "none"
    byKey,            \* results collected by product key, groups taken in any order
    writes,           \* the groups written to byKey, in the order they were taken
    loading,          \* loaders: the input read last
    columns,          \* loaders: the columns of the input read last
    reported,         \* loaders: the columns the error message names
    trace,            \* the steps of main / pipeline that have run
    cleaned,          \* the cleaned posts table
    trends,           \* compute_time_trends' result
    arg,              \* the argument of the function under study
    ret,              \* what it returned
    BABY_KEYWORDS,    \* data_pipeline's module-level keyword list
    caller,           \* the columns of the tables the caller holds
    index_base        \* the first label of the catalog's row index

vars == <<variant, pid_kind, catalog_df, image_matches, sim, social_products, posts,
          i, match_results, matched, output, pc, err, byKey, writes,
          loading, columns, reported, trace, cleaned, trends,
          arg, ret, BABY_KEYWORDS, caller, index_base>>

\* the variables of the stages before and beside the resolver
side == <<loading, columns, reported, trace, cleaned, trends, arg, ret, BABY_KEYWORDS>>

\* the variables only some specifications use
rest == <<arg, ret, BABY_KEYWORDS, caller, index_base>>

----------------------------------------------------------------------------
\* Bounds of the model.
MaxCatalog == 2
MaxGroups == 2
MaxImg == 2

\* Program constants.
similarity_threshold == 75
threshold == 70

Pct(n) == 10 * n

Id(t, v) == [t |-> t, v |-> v]

\* Python's None and pandas' NaN (a missing cell), as values of the id type
None == Id("None", 0)
NaN == Id("NaN", 0)

\* a missing catalog name, and process.extractOne's None
NoName == 0
NoResult == [choice |-> 0, score |-> 0, index |-> 0]

\* str(x)
Str(x) == Id("str", x.v)

\* groupby sorts its keys; numbers before strings, then by value
IdRank(x) == 2 * x.v + (IF x.t = "str" THEN 1 ELSE 0)

\* float(score): the score is already a float
Float(s) == s

\* int(score): truncation towards zero of a non-negative float
IntOf(s) == Pct(s \div 10)

SeqMax(S) == CHOOSE x \in S : \A y \in S : y <= x
SeqMin(S) == CHOOSE x \in S : \A y \in S : x <= y

\* the n-th element of a finite set of numbers, in increasing order
Nth(S, n) == CHOOSE x \in S : Cardinality({y \in S : y <= x}) = n

\* data_pipeline.BABY_KEYWORDS as imported, each keyword a sequence of characters
DEFAULT_BABY_KEYWORDS ==
    <<<<"b", "a", "b", "y">>,
      <<"n", "e", "w", "b", "o", "r", "n">>,
      <<"i", "n", "f", "a", "n", "t">>,
      <<"s", "t", "r", "o", "l", "l", "e", "r">>,
      <<"p", "r", "a", "m">>,
      <<"c", "r", "i", "b">>,
      <<"c", "o", "t">>,
      <<"d", "i", "a", "p", "e", "r">>,
      <<"n", "a", "p", "p", "y">>,
      <<"b", "o", "t", "t", "l", "e">>,
      <<"p", "a", "c", "i", "f", "i", "e", "r">>,
      <<"o", "n", "e", "s", "i", "e">>,
      <<"s", "w", "a", "d", "d", "l", "e">>,
      <<"c", "a", "r", "r", "i", "e", "r">>,
      <<"s", "l", "i", "n", "g">>,
      <<"c", "a", "r", " ", "s", "e", "a", "t">>,
      <<"h", "i", "g", "h", " ", "c", "h", "a", "i", "r">>>>

NoTables == [posts |-> {}, catalog |-> {}, image |-> {}]

\* no function under study, the keyword list as imported
PureIdle == arg = <<>> /\ ret = <<>> /\ BABY_KEYWORDS = DEFAULT_BABY_KEYWORDS

RestIdle == PureIdle /\ caller = NoTables /\ index_base = 0

----------------------------------------------------------------------------
\* Variant A: src/matching.py match_products_to_catalog

\* catalog_df["product_id"], synthesized from the index labels
\* (index_base, index_base + 1, ...) when absent
ProductIdColumn(cat, kind) ==
    [c \in 1..Len(cat) |->
        IF kind = "none" THEN Id("str", c - 1 + index_base) ELSE Id(kind, cat[c].v)]

\* catalog_df["match_name"]: rows with equal descriptive fields get the same string
MatchNameColumn(cat) == [c \in 1..Len(cat) |-> cat[c].blob]

\* image_lookup = {str(post_id): str(product_id)}; a later row overwrites an earlier one
ImageLookup(img) ==
    IF ~img.given THEN <<>>
    ELSE LET rows == img.rows
         IN  [p \in {rows[k].key : k \in 1..Len(rows)} |->
                Str(rows[SeqMax({k \in 1..Len(rows) : rows[k].key = p})])]

\* the for/break loop over the group's post_ids
FirstImageHit(post_ids, lookup) ==
    LET hits == {k \in 1..Len(post_ids) : post_ids[k] \in DOMAIN lookup}
    IN  IF hits = {} THEN None ELSE lookup[post_ids[SeqMin(hits)]]

\* fuzz.token_set_ratio(social_name, match_name)
Scorer(g, name, blob) == IF name = "" THEN 0 ELSE sim[g][blob]

\* process.extractOne: None for no choices, else the first choice of maximal score;
\* index is the position of the choice among the choices
ExtractOne(g, name, choices) ==
    IF DOMAIN choices = {} THEN NoResult
    ELSE LET best == SeqMax({Scorer(g, name, choices[c]) : c \in DOMAIN choices})
             idx  == SeqMin({c \in DOMAIN choices : Scorer(g, name, choices[c]) = best})
         IN  [choice |-> choices[idx], score |-> best, index |-> idx]

MatchResult(key, cid, cname, score, source) ==
    [social_key |-> key, catalog_id |-> cid, catalog_name |-> cname,
     score |-> score, source |-> source]

\* the catalog an iteration of the loop works on: earlier iterations leave it as it was
LoopCatalogConsumed(cat, results) ==
    LET used == {results[k].catalog_name : k \in DOMAIN results}
        keep == {c \in 1..Len(cat) : c \notin used}
    IN  [n \in 1..Cardinality(keep) |-> cat[Nth(keep, n)]]

LoopCatalog(cat, results) == cat

\* `if best_match and best_match[1] >= similarity_threshold`
AcceptsStrict(best, thr) == best # NoResult /\ best.score > Pct(thr)

AcceptsAny(best, thr) == best # NoResult

Accepts(best, thr) == best # NoResult /\ best.score >= Pct(thr)

\* image tier: the catalog rows carrying the image-matched product id,
\* catalog_df.loc[catalog_df["product_id"] == image_matched_catalog_id]
ImageRows(pids, image_id) == {c \in DOMAIN pids : pids[c] = image_id}

\* catalog_df.iloc[catalog_index]: extractOne on a Series gives the index LABEL of the
\* best choice, and iloc reads it as a position. The labels of the catalog are
\* index_base, index_base + 1, ...; the value is the row read, counted from 1
ILoc(best) == best.index + index_base

\* the text tier of one iteration; the source "IndexError" stands for the exception
\* that iloc raises for a position behind the last row
TextTier(g, row, cat, kind) ==
    LET best == ExtractOne(g, row.social_name, MatchNameColumn(cat))
        pids == ProductIdColumn(cat, kind)
    IN  IF Accepts(best, similarity_threshold)
        THEN IF ILoc(best) > Len(cat)
             THEN MatchResult(row.product_key, None, NoName, 0, "IndexError")
             ELSE MatchResult(row.product_key, Str(pids[ILoc(best)]), ILoc(best),
                              Float(best.score), "text_match")
        ELSE MatchResult(row.product_key, None, NoName, 0, "no_match")

\* one iteration of the loop over social_products
ResolveGroup(g, row, cat, kind, img) ==
    LET pids     == ProductIdColumn(cat, kind)
        image_id == FirstImageHit(row.post_ids, ImageLookup(img))
        rows     == IF image_id = None THEN {} ELSE ImageRows(pids, image_id)
    IN  IF rows # {}
        THEN MatchResult(row.product_key, image_id, SeqMin(rows), Pct(100), "image_match")
        ELSE TextTier(g, row, cat, kind)


\* matches_df = pd.DataFrame(match_results): no columns at all for an empty list
MatchesColumns(results) ==
    IF results = <<>> THEN {}
    ELSE {"social_key", "catalog_id", "catalog_name", "score", "source"}

\* left.merge(right, how="left"): the rows of right joined to one row of left;
\* rkeys[k] is the join key of right[k]
JoinedTo(row, key, right, rkeys) ==
    LET hit == {k \in 1..Len(right) : rkeys[k] = key}
    IN  IF hit = {} THEN <<[left |-> row, right |-> NaN]>>
        ELSE [n \in 1..Cardinality(hit) |->
                [left |-> row,
                 right |-> right[Nth(hit, n)]]]

RECURSIVE MergeLeft(_, _, _, _)
MergeLeft(left, lkeys, right, rkeys) ==
    IF left = <<>> THEN <<>>
    ELSE JoinedTo(Head(left), Head(lkeys), right, rkeys)
         \o MergeLeft(Tail(left), Tail(lkeys), right, rkeys)

\* social_products.merge(matches_df, left_on="product_key", right_on="social_key", how="left")
MergeMatches(social, results) ==
    MergeLeft(social, [g \in DOMAIN social |-> social[g].product_key],
              results, [k \in DOMAIN results |-> results[k].social_key])

\* summarize_catalog_prices: catalog_df.groupby("product_id"), one row per product id
\* of the catalog as passed in (ids synthesized from the row position when absent)
PriceStatsPerRow(cat, kind) ==
    LET pids == ProductIdColumn(cat, kind)
    IN  [c \in DOMAIN pids |-> [product_id |-> pids[c], rows |-> {c}]]

PriceStats(cat, kind) ==
    LET pids  == ProductIdColumn(cat, kind)
        ids   == {pids[c] : c \in DOMAIN pids}
        ranks == {IdRank(x) : x \in ids}
    IN  [n \in 1..Cardinality(ids) |->
            LET x == CHOOSE y \in ids : IdRank(y) = Nth(ranks, n)
            IN  [product_id |-> x, rows |-> {c \in DOMAIN pids : pids[c] = x}]]

\* attach_price_info: matched_df.merge(price_stats, left_on="catalog_id",
\*                                     right_on="product_id", how="left")
AttachPriceInfo(m, stats) ==
    MergeLeft(m, [k \in DOMAIN m |-> IF m[k].right = NaN THEN NaN ELSE m[k].right.catalog_id],
              stats, [k \in DOMAIN stats |-> stats[k].product_id])

----------------------------------------------------------------------------
\* Variant B: data_pipeline.py apply_image_matches / apply_text_matches /
\* aggregate_popularity, src/utils_text.py fuzzy_match_product

PostRow(p, pid, score) ==
    [post_id |-> p.post_id, image_id |-> p.image_id, text_blob |-> p.text_blob,
     likes |-> p.likes, product_id |-> pid, text_match_score |-> score]

\* apply_image_matches: every post gets NaN when there is no image table, else
\* posts.merge(image_matches, on="image_id", how="left")
ApplyImageMatches(ps, img, kind) ==
    IF ~img.given \/ img.rows = <<>>
    THEN [k \in DOMAIN ps |-> PostRow(ps[k], NaN, NaN)]
    ELSE LET j == MergeLeft(ps, [k \in DOMAIN ps |-> ps[k].image_id],
                            img.rows, [k \in DOMAIN img.rows |-> img.rows[k].key])
         IN  [k \in DOMAIN j |->
                PostRow(j[k].left,
                        IF j[k].right = NaN THEN NaN ELSE Id(kind, j[k].right.v), NaN)]

\* apply_image_matches: the columns of the table the caller passed in, after the call;
\* `posts["product_id"] = np.nan` writes to that table itself
CallerPostsAfterImage(cols, img) ==
    IF ~img.given \/ img.rows = <<>> THEN cols \cup {"product_id"} ELSE cols

\* catalog["search_blob"]: rows with equal descriptive fields get the same string
SearchBlobColumn(cat) == [c \in 1..Len(cat) |-> cat[c].blob]

\* fuzzy_match_product; u names the search text for the scorer
FuzzyMatchProduct(u, search_text, cat, kind, thr) ==
    IF search_text = "" \/ cat = <<>> THEN [product_id |-> None, score |-> 0]
    ELSE LET pids   == ProductIdColumn(cat, kind)
             blobs  == SearchBlobColumn(cat)
             keep   == {c \in DOMAIN pids : pids[c] # NaN}
             result == ExtractOne(u, search_text, [c \in keep |-> blobs[c]])
         IN  IF Accepts(result, thr)
             THEN [product_id |-> Str(pids[SeqMin({c \in keep : blobs[c] = result.choice})]),
                   score |-> IntOf(result.score)]
             ELSE [product_id |-> None, score |-> 0]

\* posts.at[idx, "product_id"] = None leaves the cell missing
Cell(x) == IF x = None THEN NaN ELSE x

\* apply_text_matches: only the rows whose product_id is missing are matched by text
ApplyTextMatches(ps, cat, kind, thr) ==
    [k \in DOMAIN ps |->
        IF ps[k].product_id = NaN
        THEN LET m == FuzzyMatchProduct(ps[k].post_id, ps[k].text_blob, cat, kind, thr)
             IN  PostRow(ps[k], Cell(m.product_id), m.score)
        ELSE ps[k]]

\* the sum of f over the finite set S
RECURSIVE Sum(_, _)
Sum(f, S) ==
    IF S = {} THEN 0
    ELSE LET x == CHOOSE y \in S : TRUE
         IN  f[x] + Sum(f, S \ {x})

\* aggregate_popularity: dropna(subset=["product_id"]), groupby("product_id") with
\* num_posts = ("post_id", "nunique") and total_likes = ("likes", "sum")
AggregatePopularity(ps) ==
    LET ids   == {ps[k].product_id : k \in DOMAIN ps} \ {NaN}
        ranks == {IdRank(x) : x \in ids}
    IN  [n \in 1..Cardinality(ids) |->
            LET x    == CHOOSE y \in ids : IdRank(y) = Nth(ranks, n)
                rows == {j \in DOMAIN ps : ps[j].product_id = x}
            IN  [product_id |-> x,
                 num_posts |-> Cardinality({ps[k].post_id : k \in rows}),
                 total_likes |-> Sum([k \in rows |-> ps[k].likes], rows)]]

----------------------------------------------------------------------------
\* Inputs of the model

ScoreVals(thr) == {Pct(thr) - 10, Pct(thr), Pct(100)}

\* fuzz.WRatio scores, among them one with a fractional part (70.5 for threshold 70)
WRatioVals(thr) == ScoreVals(thr) \cup {Pct(thr) + 5}

\* the stages that a specification does not run stay as constructed
SideIdle ==
    /\ loading = "none" /\ columns = {} /\ reported = {} /\ trace = <<>>
    /\ cleaned = <<>> /\ trends = <<>>
    /\ PureIdle

\* the posts of group g: the first group has two posts, the others one
PostIdsOf(g) == IF g = 1 THEN <<1, 2>> ELSE <<g + 1>>

AllPosts == 1..(MaxGroups + 1)

SeqsUpTo(S, n) == UNION {[1..k -> S] : k \in 0..n}

\* catalogs: row c carries one of the first c ids and one of the first c texts
Catalogs(kind) ==
    {cat \in SeqsUpTo([v : 1..MaxCatalog, blob : 1..MaxCatalog], MaxCatalog) :
        \A c \in 1..Len(cat) :
            /\ cat[c].blob <= c
            /\ IF kind = "none" THEN cat[c].v = c ELSE cat[c].v <= c}

ImageTables ==
    {[given |-> FALSE, rows |-> <<>>]} \cup
    {[given |-> TRUE, rows |-> r] : r \in SeqsUpTo([key : AllPosts, v : 1..MaxCatalog], MaxImg)}

BlobsOf(cat) == {cat[c].blob : c \in 1..Len(cat)}

\* scorer results; an empty text scores 0 whatever the table holds
SimTables(names, cat, thr, scores) ==
    {s \in [DOMAIN names -> [BlobsOf(cat) -> scores]] :
        \A g \in DOMAIN names :
            names[g] = "" => \A b \in BlobsOf(cat) : s[g][b] = Pct(thr)}

GroupTables ==
    UNION {{[g \in 1..n |-> [product_key |-> g, post_ids |-> PostIdsOf(g),
                             social_name |-> nm[g]]] : nm \in [1..n -> {"", "text"}]} :
           n \in 0..MaxGroups}

\* the columns of the tables that main (variant A) and pipeline (variant B) hand to
\* the resolver: the groups or posts, the catalog, the image-match table
CallerTables(v, kind, img) ==
    IF v = "A"
    THEN [posts   |-> {"product_key", "category", "brand", "model", "example_attributes",
                       "post_count", "total_likes", "total_comments", "median_engagement",
                       "post_ids", "engagement_score"},
          catalog |-> {"product_name", "brand", "model", "category", "price", "currency",
                       "url", "seller", "rating"}
                      \cup (IF kind = "none" THEN {} ELSE {"product_id"}),
          image   |-> IF img.given THEN {"post_id", "product_id"} ELSE {}]
    ELSE [posts   |-> {"post_id", "image_id", "image_url", "caption", "hashtags", "likes",
                       "comments", "posted_at", "platform", "text_blob", "is_baby_related",
                       "product_category", "inferred_brand", "inferred_brand_score",
                       "inferred_model", "inferred_model_score"},
          catalog |-> {"product_id", "product_name", "brand", "model", "category", "price",
                       "currency", "url", "rating", "marketplace"},
          image   |-> IF img.given THEN {"image_id", "product_id", "score"} ELSE {}]

InitA ==
    /\ SideIdle
    /\ variant = "A"
    /\ pid_kind \in {"none", "str", "int"}
    /\ catalog_df \in Catalogs(pid_kind)
    /\ image_matches \in ImageTables
    /\ social_products \in GroupTables
    /\ sim \in SimTables([g \in DOMAIN social_products |-> social_products[g].social_name],
                         catalog_df, similarity_threshold, ScoreVals(similarity_threshold))
    /\ posts = <<>>
    /\ i = 0
    /\ match_results = <<>>
    /\ matched = <<>>
    /\ output = <<>>
    /\ pc = "match"
    /\ err = "none"
    /\ byKey = <<>>
    /\ writes = <<>>
    /\ caller = CallerTables(variant, pid_kind, image_matches)
    /\ index_base \in {0, 1}

\* variant B posts: post u carries one of the first u image ids and has u likes
PostTables ==
    UNION {{[u \in 1..n |-> [post_id |-> u, image_id |-> im[u], text_blob |-> tx[u],
                             likes |-> u]] :
                im \in {f \in [1..n -> 1..MaxGroups] : \A u \in 1..n : f[u] <= u},
                tx \in [1..n -> {"", "text"}]} :
           n \in 0..MaxGroups}

InitB ==
    /\ SideIdle
    /\ variant = "B"
    /\ pid_kind \in {"str", "int"}
    /\ catalog_df \in Catalogs(pid_kind)
    /\ image_matches \in ImageTables
    /\ posts \in PostTables
    /\ sim \in SimTables([u \in DOMAIN posts |-> posts[u].text_blob], catalog_df, threshold,
                         WRatioVals(threshold))
    /\ social_products = <<>>
    /\ i = 0
    /\ match_results = <<>>
    /\ matched = <<>>
    /\ output = <<>>
    /\ pc = "image"
    /\ err = "none"
    /\ byKey = <<>>
    /\ writes = <<>>
    /\ caller = CallerTables(variant, pid_kind, image_matches)
    /\ index_base = 0

inputs == <<variant, pid_kind, catalog_df, image_matches, sim, social_products, posts,
            index_base>>

\* match_products_to_catalog, one iteration of `for _, social_row in social_products.iterrows()`
MatchStep ==
    /\ variant = "A" /\ pc = "match" /\ i < Len(social_products)
    /\ LET r == ResolveGroup(i + 1, social_products[i + 1],
                             LoopCatalog(catalog_df, match_results), pid_kind, image_matches)
       IN  IF r.source = "IndexError"
           THEN /\ err' = "IndexError"
                /\ pc' = "error"
                /\ UNCHANGED <<match_results, i>>
           ELSE /\ match_results' = Append(match_results, r)
                /\ i' = i + 1
                /\ UNCHANGED <<pc, err>>
    /\ UNCHANGED <<inputs, side, caller, matched, output, byKey, writes>>

\* match_products_to_catalog, after the loop: build matches_df and merge it
MatchMerge ==
    /\ variant = "A" /\ pc = "match" /\ i = Len(social_products)
    /\ IF "social_key" \in MatchesColumns(match_results)
       THEN /\ matched' = MergeMatches(social_products, match_results)
            /\ pc' = "attach"
            /\ err' = err
       ELSE /\ err' = "KeyError"
            /\ pc' = "error"
            /\ matched' = matched
    /\ UNCHANGED <<inputs, side, caller, i, match_results, output, byKey, writes>>

\* DataFrame.merge checks the dtypes of the join keys: catalog_id is an object column
\* of strings and None, product_id of the statistics is int64 for a catalog with
\* numeric ids (object for one without rows). Strings against int64 raise ValueError;
\* for a catalog_id column holding None only the check depends on how pandas infers
\* the column, so both outcomes are kept. The value is the set of outcomes:
\* TRUE for the exception.
MergeKeysRaise(m, stats, kind) ==
    IF kind # "int" \/ stats = <<>> THEN {FALSE}
    ELSE IF \E k \in DOMAIN m : m[k].right # NaN /\ m[k].right.catalog_id # None
         THEN {TRUE}
         ELSE {FALSE, TRUE}

\* main: summarize_catalog_prices and attach_price_info
AttachPrices ==
    /\ variant = "A" /\ pc = "attach"
    /\ LET price_stats == PriceStats(catalog_df, pid_kind)
       IN  \E raises \in MergeKeysRaise(matched, price_stats, pid_kind) :
             IF raises
             THEN /\ err' = "ValueError"
                  /\ pc' = "error"
                  /\ output' = output
             ELSE /\ output' = AttachPriceInfo(matched, price_stats)
                  /\ pc' = "done"
                  /\ err' = err
    /\ UNCHANGED <<inputs, side, caller, i, match_results, matched, byKey, writes>>

\* the loop body run for the groups in any order, results collected by product key
ResolveAny ==
    /\ variant = "A" /\ pc = "done"
    /\ \E g \in DOMAIN social_products :
        /\ [g |-> g] \notin {[g |-> writes[k]] : k \in DOMAIN writes}
        /\ LET done == [k \in DOMAIN writes |-> byKey[social_products[writes[k]].product_key]]
               r == ResolveGroup(g, social_products[g],
                                 LoopCatalog(catalog_df, done), pid_kind, image_matches)
           IN  /\ r.source # "IndexError"
               /\ byKey' = [k \in DOMAIN byKey \cup {r.social_key} |->
                               IF k = r.social_key THEN r ELSE byKey[k]]
        /\ writes' = Append(writes, g)
    /\ UNCHANGED <<inputs, side, caller, i, match_results, matched, output, pc, err>>

\* pipeline: matched = apply_image_matches(baby_posts, image_matches)
ImageMatches ==
    /\ variant = "B" /\ pc = "image"
    /\ matched' = ApplyImageMatches(posts, image_matches, pid_kind)
    /\ caller' = [caller EXCEPT !.posts = CallerPostsAfterImage(@, image_matches)]
    /\ pc' = "text"
    /\ UNCHANGED <<inputs, side, i, match_results, output, err, byKey, writes>>

\* pipeline: matched = apply_text_matches(matched, products_df)
TextMatches ==
    /\ variant = "B" /\ pc = "text"
    /\ matched' = ApplyTextMatches(matched, catalog_df, pid_kind, threshold)
    /\ pc' = "aggregate"
    /\ UNCHANGED <<inputs, side, caller, i, match_results, output, err, byKey, writes>>

\* pipeline: popularity = aggregate_popularity(matched), then the left merges with
\* the product dimension and the price statistics (one row per product_id each)
Aggregate ==
    /\ variant = "B" /\ pc = "aggregate"
    /\ output' = AggregatePopularity(matched)
    /\ pc' = "done"
    /\ UNCHANGED <<inputs, side, caller, i, match_results, matched, err, byKey, writes>>

Next ==
    \/ MatchStep \/ MatchMerge \/ AttachPrices \/ ResolveAny
    \/ ImageMatches \/ TextMatches \/ Aggregate

Init == InitA \/ InitB

Spec == Init /\ [][Next]_vars
----------------------------------------------------------------------------
\* Loading and schema validation: src/io_utils.py (variant A, called by main.main)
\* and data_pipeline.py validate_columns (variant B, called by pipeline)

MaxMissing == 2

\* the required columns of each input
Required(v, input) ==
    IF v = "A"
    THEN CASE input = "social"  -> {"post_id", "image_url", "caption", "hashtags", "likes",
                                    "comments", "timestamp"}
           [] input = "catalog" -> {"product_name", "brand", "model", "category", "price",
                                    "currency", "url", "seller"}
           [] input = "image"   -> {"post_id", "product_id"}
    ELSE CASE input = "social"  -> {"post_id", "image_id", "image_url", "caption",
                                    "hashtags", "likes", "comments", "posted_at", "platform"}
           [] input = "catalog" -> {"product_id", "product_name", "brand", "model",
                                    "category", "price", "currency", "url", "rating",
                                    "marketplace"}
           [] input = "image"   -> {"image_id", "product_id", "score"}

\* missing = expected_columns - set(df.columns)
MissingFirst(required, cols) ==
    IF required \ cols = {} THEN {} ELSE {CHOOSE c \in required \ cols : TRUE}

Missing(required, cols) == required \ cols

\* the table a loader returns: load_catalog_dataset adds a missing rating column
Loaded(v, input, file) ==
    IF v = "A" /\ input = "catalog" /\ Missing(Required(v, input), file) = {}
    THEN file \cup {"rating"}
    ELSE file

\* the steps main / pipeline run on the loaded tables, in order
ComputeSteps(v) ==
    IF v = "A"
    THEN <<"prepare_social_products", "aggregate_product_popularity", "compute_time_trends",
           "match_products_to_catalog", "summarize_catalog_prices", "attach_price_info">>
    ELSE <<"clean_social", "filter_baby_posts", "infer_category", "infer_brand_model",
           "apply_image_matches", "apply_text_matches", "aggregate_popularity",
           "aggregate_prices">>

\* a file of the input: the required columns but at most MaxMissing of them
Files(v, input) ==
    {Required(v, input) \ m : m \in {x \in SUBSET Required(v, input) :
                                        Cardinality(x) <= MaxMissing}}

resolver == <<pid_kind, catalog_df, image_matches, sim, social_products, posts,
              i, match_results, matched, output, byKey, writes, rest>>

ResolverIdle ==
    /\ pid_kind = "none" /\ catalog_df = <<>>
    /\ image_matches = [given |-> FALSE, rows |-> <<>>]
    /\ sim = <<>> /\ social_products = <<>> /\ posts = <<>>
    /\ i = 0 /\ match_results = <<>> /\ matched = <<>> /\ output = <<>>
    /\ byKey = <<>> /\ writes = <<>>
    /\ RestIdle

InitLoad ==
    /\ variant \in {"A", "B"}
    /\ ResolverIdle
    /\ loading = "none" /\ columns = {} /\ reported = {} /\ trace = <<>>
    /\ cleaned = <<>> /\ trends = <<>>
    /\ pc = "social"
    /\ err = "none"

\* load_social_dataset / load_catalog_dataset / load_image_matches (variant A),
\* read_csv + validate_columns (variant B): read one input and check its columns
Load(input, next) ==
    /\ \E file \in Files(variant, input) :
        /\ loading' = input
        /\ columns' = Loaded(variant, input, file)
        /\ IF Missing(Required(variant, input), file) # {}
           THEN /\ err' = "ValueError"
                /\ reported' = Missing(Required(variant, input), file)
                /\ pc' = "error"
                /\ trace' = trace
           ELSE /\ err' = err
                /\ reported' = reported
                /\ pc' = next
                /\ trace' = Append(trace, input)
    /\ UNCHANGED <<variant, resolver, cleaned, trends>>

LoadSocial ==
    /\ pc = "social"
    /\ Load("social", "catalog")

LoadCatalog ==
    /\ pc = "catalog"
    /\ Load("catalog", "image")

\* an image-match path was given
LoadImage ==
    /\ pc = "image"
    /\ Load("image", "compute")

\* no image-match path was given: load_image_matches returns None, pipeline skips the read
NoImage ==
    /\ pc = "image"
    /\ pc' = "compute"
    /\ UNCHANGED <<variant, resolver, loading, columns, reported, trace, cleaned, trends, err>>

\* main / pipeline: the next step on the loaded tables
Compute ==
    /\ pc = "compute"
    /\ LET done == Len(SelectSeq(trace, LAMBDA x : x \notin {"social", "catalog", "image"}))
       IN  /\ trace' = Append(trace, ComputeSteps(variant)[done + 1])
           /\ pc' = IF done + 1 = Len(ComputeSteps(variant)) THEN "done" ELSE "compute"
    /\ UNCHANGED <<variant, resolver, loading, columns, reported, cleaned, trends, err>>

NextLoad == LoadSocial \/ LoadCatalog \/ LoadImage \/ NoImage \/ Compute

SpecLoad == InitLoad /\ [][NextLoad]_vars

Computed == {k \in DOMAIN trace : trace[k] \notin {"social", "catalog", "image"}}

\* C7: an input that lacks required columns aborts the run with an error naming every
\* missing required column of that input, before any cleaning, classification,
\* matching or aggregation step has run.
C7_SchemaFirst ==
    /\ loading # "none" /\ Required(variant, loading) \ columns # {} =>
         /\ pc = "error" /\ err = "ValueError"
         /\ reported = Required(variant, loading) \ columns
         /\ Computed = {}
    /\ Computed # {} =>
         /\ err = "none"
         /\ Required(variant, loading) \subseteq columns
         /\ \E a, b \in DOMAIN trace :
              a < b /\ trace[a] = "social" /\ trace[b] = "catalog" /\ \A k \in Computed : b < k

C7_Witness ==
    /\ pc = "error" /\ loading = "image" /\ variant = "B"
    /\ Cardinality(reported) = MaxMissing

----------------------------------------------------------------------------
\* Cleaning and aggregation of the posts table: src/text_cleaning.py
\* clean_social_posts, src/analytics.py prepare_social_products and
\* aggregate_product_popularity (variant A); data_pipeline.py clean_social (variant B)

MaxRows == 2

\* cells of a table as read: a string, a number, or missing
Text(v) == Id("str", v)
Num(v) == Id("int", v)
NaT == Id("NaT", 0)
Empty == Id("norm", 0)

IsStr(x) == x.t = "str"

\* normalize_text: "" for a value that is no string, else the normalized text
NormalizeText(x) == IF IsStr(x) THEN Id("norm", x.v) ELSE Empty

\* pd.to_numeric(errors="coerce").fillna(0).astype(int)
ToCount(x) == IF x.t = "int" THEN x.v ELSE 0

\* pd.to_datetime(errors="coerce"): month x.v of a parseable string, else NaT
ToDatetime(x) == IF IsStr(x) /\ x.v > 0 THEN Id("ts", x.v) ELSE NaT

\* a posts table as read: row u has post_id u; Text(0) is a string that is neither a
\* number nor a date
RawPosts ==
    UNION {[1..n -> [caption : {Text(1), NaN}, hashtags : {Text(1), NaN},
                     likes : {Num(5), Text(0), NaN}, comments : {Num(2), Text(0)},
                     timestamp : {Text(1), Text(0)}]] : n \in 1..MaxRows}

InitClean ==
    /\ variant \in {"A", "B"}
    /\ pid_kind = "none" /\ catalog_df = <<>>
    /\ image_matches = [given |-> FALSE, rows |-> <<>>]
    /\ sim = <<>> /\ social_products = <<>>
    /\ posts \in RawPosts
    /\ i = 0 /\ match_results = <<>> /\ matched = <<>> /\ output = <<>>
    /\ byKey = <<>> /\ writes = <<>>
    /\ loading = "none" /\ columns = {} /\ reported = {} /\ trace = <<>>
    /\ cleaned = <<>> /\ trends = <<>>
    /\ pc = "clean"
    /\ err = "none"
    /\ RestIdle

\* `" ".join([row.get("caption", ""), ...])` raises TypeError for a caption that is
\* no string (a missing caption is a float NaN)
JoinRaises(ps) == \E u \in DOMAIN ps : ~IsStr(ps[u].caption)

\* clean_social_posts: caption_clean, hashtags_list and attributes are added
CleanSocialPosts(ps) ==
    [u \in DOMAIN ps |->
        [post_id |-> u, caption_clean |-> NormalizeText(ps[u].caption),
         hashtags_list |-> NormalizeText(ps[u].hashtags),
         likes |-> ps[u].likes, comments |-> ps[u].comments,
         timestamp |-> ps[u].timestamp, product_key |-> 0]]

\* prepare_social_products: category, brand and model give each post its product key
PrepareSocialProducts(cs) ==
    [u \in DOMAIN cs |-> [cs[u] EXCEPT !.product_key = cs[u].caption_clean.v]]

\* sum of a column over rows: missing cells are skipped
RECURSIVE SumOver(_, _)
SumOver(S, f) ==
    IF S = {} THEN 0
    ELSE LET u == CHOOSE x \in S : TRUE
         IN  (IF f[u].t = "int" THEN f[u].v ELSE 0) + SumOver(S \ {u}, f)

\* groupby("product_key").agg(...): the median of a column holding a non-numeric
\* string raises
AggRaises(cs) == \E u \in DOMAIN cs : IsStr(cs[u].likes) \/ IsStr(cs[u].comments)

AggregateProductPopularity(cs) ==
    LET keys == {cs[u].product_key : u \in DOMAIN cs}
    IN  [n \in 1..Cardinality(keys) |->
            LET key  == Nth(keys, n)
                rows == {u \in DOMAIN cs : cs[u].product_key = key}
                likes    == SumOver(rows, [u \in rows |-> cs[u].likes])
                comments == SumOver(rows, [u \in rows |-> cs[u].comments])
            IN  [product_key |-> key,
                 post_count |-> Cardinality({cs[u].post_id : u \in rows}),
                 total_likes |-> likes, total_comments |-> comments,
                 post_ids |-> [m \in 1..Cardinality(rows) |-> cs[Nth(rows, m)].post_id],
                 engagement_score |-> likes + comments]]

\* clean_social: text normalized, counts and dates coerced
CleanSocial(ps) ==
    [u \in DOMAIN ps |->
        [post_id |-> u, caption |-> NormalizeText(ps[u].caption),
         hashtags |-> NormalizeText(ps[u].hashtags),
         likes |-> ToCount(ps[u].likes), comments |-> ToCount(ps[u].comments),
         posted_at |-> ToDatetime(ps[u].timestamp)]]

frame == <<variant, pid_kind, catalog_df, image_matches, sim, social_products, posts,
           i, match_results, matched, byKey, writes, loading, columns, reported, trace,
           rest>>

\* prepare_social_products: social_df = clean_social_posts(social_df)
CleanA ==
    /\ variant = "A" /\ pc = "clean"
    /\ IF JoinRaises(posts)
       THEN err' = "TypeError" /\ pc' = "error" /\ cleaned' = cleaned
       ELSE err' = err /\ pc' = "prepare" /\ cleaned' = CleanSocialPosts(posts)
    /\ UNCHANGED <<frame, output, trends>>

\* prepare_social_products: the rest of the function
PrepareA ==
    /\ variant = "A" /\ pc = "prepare"
    /\ cleaned' = PrepareSocialProducts(cleaned)
    /\ pc' = "aggregate"
    /\ UNCHANGED <<frame, output, trends, err>>

\* main: product_popularity = aggregate_product_popularity(social_enriched)
AggregateA ==
    /\ variant = "A" /\ pc = "aggregate"
    /\ IF AggRaises(cleaned)
       THEN err' = "TypeError" /\ pc' = "error" /\ output' = output
       ELSE err' = err /\ pc' = "done" /\ output' = AggregateProductPopularity(cleaned)
    /\ UNCHANGED <<frame, cleaned, trends>>

\* pipeline: social_clean = clean_social(social_df)
CleanB ==
    /\ variant = "B" /\ pc = "clean"
    /\ cleaned' = CleanSocial(posts)
    /\ pc' = "done"
    /\ UNCHANGED <<frame, output, trends, err>>

NextClean == CleanA \/ PrepareA \/ AggregateA \/ CleanB

SpecClean == InitClean /\ [][NextClean]_vars

\* C8: a malformed row (missing caption or hashtags, non-numeric count, unparseable
\* timestamp) never aborts cleaning and aggregation; counts default to 0, timestamps
\* to null, and the other rows are processed normally.
C8_MalformedRowTolerated ==
    /\ err = "none"
    /\ pc = "done" /\ variant = "B" =>
         \A u \in DOMAIN posts :
            /\ cleaned[u].likes = (IF posts[u].likes.t = "int" THEN posts[u].likes.v ELSE 0)
            /\ cleaned[u].posted_at = NaT <=> posts[u].timestamp = Text(0)
    /\ pc = "done" /\ variant = "A" =>
         {output[n].product_key : n \in DOMAIN output}
           = {posts[u].caption.v : u \in DOMAIN posts}

C8_Witness ==
    /\ variant = "A" /\ pc = "error" /\ err = "TypeError"
    /\ posts = <<[caption |-> Text(1), hashtags |-> Text(1), likes |-> Num(5),
                  comments |-> Num(2), timestamp |-> Text(1)],
                 [caption |-> NaN, hashtags |-> Text(1), likes |-> Num(5),
                  comments |-> Num(2), timestamp |-> Text(1)]>>

----------------------------------------------------------------------------
\* Trend growth: src/analytics.py compute_time_trends and the merge in main.main

MaxTrendPosts == 3
recent_months == 3
prior_months == 3

\* months of the posts' timestamps: one before the prior window, two in it, two in
\* the recent window when the latest is month 8
Months == {1, 2, 4, 5, 8}

TrendPosts ==
    UNION {[1..n -> [product_key : 1..2, timestamp : {Text(m) : m \in Months \cup {0}}]] :
           n \in 1..MaxTrendPosts}

InitTrend ==
    /\ variant = "A"
    /\ pid_kind = "none" /\ catalog_df = <<>>
    /\ image_matches = [given |-> FALSE, rows |-> <<>>]
    /\ sim = <<>> /\ social_products = <<>> /\ posts = <<>>
    /\ i = 0 /\ match_results = <<>> /\ matched = <<>> /\ output = <<>>
    /\ byKey = <<>> /\ writes = <<>>
    /\ loading = "none" /\ columns = {} /\ reported = {} /\ trace = <<>>
    /\ cleaned \in TrendPosts
    /\ trends = <<>>
    /\ pc = "trends"
    /\ err = "none"
    /\ RestIdle

Growth(recent, prior) == [num |-> recent + 1, den |-> prior + 1]

\* the rows of df whose timestamp lies in [from, to)
InWindow(df, key, from, to) ==
    {u \in DOMAIN df : /\ df[u].product_key = key
                       /\ df[u].timestamp # NaT
                       /\ from <= df[u].timestamp.v /\ df[u].timestamp.v < to}

\* pd.concat([recent_counts, prior_counts], axis=1): the keys with a post in the
\* recent or in the prior window
TrendKeys(df, prior_cutoff) ==
    {df[u].product_key :
        u \in {x \in DOMAIN df : /\ df[x].timestamp # NaT
                                 /\ df[x].timestamp.v >= prior_cutoff}}

\* compute_time_trends: one row [product_key, trend_growth] per key
ComputeTimeTrends(social_df) ==
    LET df == [u \in DOMAIN social_df |->
                  [social_df[u] EXCEPT !.timestamp = ToDatetime(social_df[u].timestamp)]]
        stamped == {u \in DOMAIN df : df[u].timestamp # NaT}
    IN  IF stamped = {}
        THEN LET keys == {df[u].product_key : u \in DOMAIN df}
             IN  [n \in 1..Cardinality(keys) |->
                    [product_key |-> Nth(keys, n), trend_growth |-> [num |-> 0, den |-> 1]]]
        ELSE LET latest == SeqMax({df[u].timestamp.v : u \in stamped})
                 recent_cutoff == latest - recent_months
                 prior_cutoff == recent_cutoff - prior_months
                 keys == TrendKeys(df, prior_cutoff)
             IN  [n \in 1..Cardinality(keys) |->
                    LET key == Nth(keys, n)
                    IN  [product_key |-> key,
                         trend_growth |->
                            Growth(Cardinality(InWindow(df, key, recent_cutoff, latest + 1)),
                                   Cardinality(InWindow(df, key, prior_cutoff,
                                                        recent_cutoff)))]]

\* main: trends = compute_time_trends(social_enriched)
TimeTrends ==
    /\ pc = "trends"
    /\ trends' = ComputeTimeTrends(cleaned)
    /\ pc' = "merge"
    /\ UNCHANGED <<frame, cleaned, output, err>>

\* main: product_popularity.merge(trends, on="product_key", how="left"), on the
\* table of aggregate_product_popularity (one row per product key)
MergeTrends ==
    /\ pc = "merge"
    /\ LET keys == {cleaned[u].product_key : u \in DOMAIN cleaned}
           pop  == [n \in 1..Cardinality(keys) |-> [product_key |-> Nth(keys, n)]]
       IN  output' = MergeLeft(pop, [n \in DOMAIN pop |-> pop[n].product_key],
                               trends, [n \in DOMAIN trends |-> trends[n].product_key])
    /\ pc' = "done"
    /\ UNCHANGED <<frame, cleaned, trends, err>>

NextTrend == TimeTrends \/ MergeTrends

SpecTrend == InitTrend /\ [][NextTrend]_vars

\* the posts of a key in the recent window and in the prior window before it
Latest == SeqMax({cleaned[u].timestamp.v : u \in DOMAIN cleaned})
RecentCount(key) ==
    Cardinality({u \in DOMAIN cleaned : /\ cleaned[u].product_key = key
                                        /\ cleaned[u].timestamp.v > 0
                                        /\ cleaned[u].timestamp.v >= Latest - recent_months})
PriorCount(key) ==
    Cardinality({u \in DOMAIN cleaned :
                    /\ cleaned[u].product_key = key
                    /\ cleaned[u].timestamp.v > 0
                    /\ cleaned[u].timestamp.v >= Latest - recent_months - prior_months
                    /\ cleaned[u].timestamp.v < Latest - recent_months})

\* C10: when some post has a parseable timestamp, every product key of the aggregated
\* table gets trend_growth = (recent_count + 1) / (prior_count + 1); a key with no
\* post in either window gets 1.0.
C10_TrendGrowth ==
    pc = "done" /\ Latest > 0 =>
      \A n \in DOMAIN output :
        /\ output[n].right # NaN
        /\ output[n].right.trend_growth
             = Growth(RecentCount(output[n].left.product_key),
                      PriorCount(output[n].left.product_key))

C10_Witness ==
    /\ pc = "done" /\ Latest > 0
    /\ \E n \in DOMAIN output :
         /\ RecentCount(output[n].left.product_key) = 0
         /\ PriorCount(output[n].left.product_key) = 0
         /\ output[n].right = NaN
    /\ \E n \in DOMAIN output :
         /\ output[n].right # NaN
         /\ output[n].right.trend_growth = Growth(2, 0)

----------------------------------------------------------------------------
\* Functions on one value: src/analytics.py make_product_key, infer_category,
\* detect_brand_and_model, rank_top_items; normalize_text; the price summaries.
\* A text is a sequence of one-character strings.

\* everything but the function under study: its position, argument, result and error
others == <<pid_kind, catalog_df, image_matches, sim, social_products, posts,
            i, match_results, matched, output, byKey, writes,
            loading, columns, reported, trace, cleaned, trends,
            BABY_KEYWORDS, caller, index_base>>

OthersIdle ==
    /\ pid_kind = "none" /\ catalog_df = <<>>
    /\ image_matches = [given |-> FALSE, rows |-> <<>>]
    /\ sim = <<>> /\ social_products = <<>> /\ posts = <<>>
    /\ i = 0 /\ match_results = <<>> /\ matched = <<>> /\ output = <<>>
    /\ byKey = <<>> /\ writes = <<>>
    /\ loading = "none" /\ columns = {} /\ reported = {} /\ trace = <<>>
    /\ cleaned = <<>> /\ trends = <<>>
    /\ BABY_KEYWORDS = DEFAULT_BABY_KEYWORDS /\ caller = NoTables /\ index_base = 0

\* str.isspace for the characters of the model
IsSpace(c) == c \in {" ", "\n", "\t"}

\* str.strip()
RECURSIVE LStrip(_)
LStrip(s) == IF s # <<>> /\ IsSpace(Head(s)) THEN LStrip(Tail(s)) ELSE s

RECURSIVE RStrip(_)
RStrip(s) ==
    IF s # <<>> /\ IsSpace(s[Len(s)]) THEN RStrip(SubSeq(s, 1, Len(s) - 1)) ELSE s

Strip(s) == RStrip(LStrip(s))

\* a cell of a row: absent (the row has no such key), null (None / NaN), or a string
Field(kind, s) == [kind |-> kind, s |-> s]
Absent == Field("absent", <<>>)
Null == Field("null", <<>>)
Txt(s) == Field("str", s)

Unknown == <<"u", "n", "k", "n", "o", "w", "n">>
Delimiter == <<" ", "|", " ">>

\* row.get(key, default): the default stands in for an absent key only
Get(field, default) == IF field.kind = "absent" THEN Txt(default) ELSE field

Raised(e) == [raised |-> e, key |-> <<>>]
Returned(k) == [raised |-> "none", key |-> k]

\* make_product_key: " | ".join([...]).strip(); str.join raises TypeError for an item
\* that is no string
make_product_key(row) ==
    LET category == Get(row.product_category, Unknown)
        brand    == Get(row.brand, Unknown)
        model    == Get(row.model, <<>>)
    IN  IF \E f \in {category, brand, model} : f.kind = "null"
        THEN Raised("TypeError")
        ELSE Returned(Strip(category.s \o Delimiter \o brand.s \o Delimiter \o model.s))

\* Series.fillna(value)
FillNa(field, value) == IF field.kind = "null" THEN Txt(value) ELSE field

\* prepare_social_products: brand and model are filled before the key is built
FilledRow(row) ==
    [row EXCEPT !.brand = FillNa(row.brand, Unknown), !.model = FillNa(row.model, <<>>)]

\* rows handed to make_product_key
KeyRows ==
    [product_category : {Absent, Null, Txt(<<"c">>)},
     brand : {Absent, Null, Txt(<<"b">>)},
     model : {Absent, Null, Txt(<<>>), Txt(<<"M">>), Txt(<<"N">>)}]

\* rows as prepare_social_products builds them: infer_category gives a string,
\* detect_brand_and_model a string or None for brand and model
ExtractedRows ==
    [product_category : {Txt(Unknown), Txt(<<"c">>)},
     brand : {Null, Txt(<<"b">>)},
     model : {Null, Txt(<<"M">>), Txt(<<"N">>)}]

InitKey ==
    /\ OthersIdle
    /\ variant = "A"
    /\ \/ pc = "make_product_key" /\ arg \in KeyRows \X KeyRows
       \/ pc = "prepare_key" /\ arg \in ExtractedRows \X ExtractedRows
    /\ ret = <<>>
    /\ err = "none"

FirstRaised(results) ==
    IF \E k \in DOMAIN results : results[k].raised # "none"
    THEN results[SeqMin({k \in DOMAIN results : results[k].raised # "none"})].raised
    ELSE "none"

\* aggregate_product_popularity: social_df.apply(make_product_key, axis=1) on a table
\* that has no product_key column
MakeProductKey ==
    /\ pc = "make_product_key"
    /\ LET results == [k \in DOMAIN arg |-> make_product_key(arg[k])]
       IN  /\ ret' = results
           /\ err' = FirstRaised(results)
           /\ pc' = IF FirstRaised(results) = "none" THEN "keyed" ELSE "key_error"
    /\ UNCHANGED <<variant, arg, others>>

\* prepare_social_products: fillna on brand and model, then apply(make_product_key)
PrepareKey ==
    /\ pc = "prepare_key"
    /\ LET results == [k \in DOMAIN arg |-> make_product_key(FilledRow(arg[k]))]
       IN  /\ ret' = results
           /\ err' = FirstRaised(results)
           /\ pc' = IF FirstRaised(results) = "none" THEN "keyed" ELSE "key_error"
    /\ UNCHANGED <<variant, arg, others>>

\* ---- infer_category: src/analytics.py (variant A), data_pipeline.py with
\* utils_text.contains_any (variant B)

MaxWords == 2

\* analytics.CATEGORY_KEYWORDS, in declaration order
CATEGORY_KEYWORDS_A ==
    <<
      [category |-> "stroller",
       keywords |-> <<<<"s", "t", "r", "o", "l", "l", "e", "r">>,
                      <<"p", "r", "a", "m">>,
                      <<"b", "u", "g", "g", "y">>>>],
      [category |-> "baby bottle",
       keywords |-> <<<<"b", "o", "t", "t", "l", "e">>,
                      <<"f", "e", "e", "d", "i", "n", "g", " ", "b", "o", "t", "t", "l", "e">>,
                      <<"s", "i", "l", "i", "c", "o", "n", "e", " ", "b", "o", "t", "t", "l", "e">>>>],
      [category |-> "onesie",
       keywords |-> <<<<"o", "n", "e", "s", "i", "e">>,
                      <<"b", "o", "d", "y", "s", "u", "i", "t">>,
                      <<"r", "o", "m", "p", "e", "r">>>>],
      [category |-> "crib",
       keywords |-> <<<<"c", "r", "i", "b">>,
                      <<"c", "o", "t">>,
                      <<"b", "a", "s", "s", "i", "n", "e", "t">>>>],
      [category |-> "diaper",
       keywords |-> <<<<"d", "i", "a", "p", "e", "r">>,
                      <<"n", "a", "p", "p", "y">>,
                      <<"p", "a", "m", "p", "e", "r", "s">>>>],
      [category |-> "carrier",
       keywords |-> <<<<"c", "a", "r", "r", "i", "e", "r">>,
                      <<"w", "r", "a", "p">>,
                      <<"s", "l", "i", "n", "g">>>>],
      [category |-> "car seat",
       keywords |-> <<<<"c", "a", "r", " ", "s", "e", "a", "t">>,
                      <<"i", "n", "f", "a", "n", "t", " ", "s", "e", "a", "t">>>>],
      [category |-> "pacifier",
       keywords |-> <<<<"p", "a", "c", "i", "f", "i", "e", "r">>,
                      <<"d", "u", "m", "m", "y">>,
                      <<"s", "o", "o", "t", "h", "e", "r">>>>],
      [category |-> "toy",
       keywords |-> <<<<"t", "o", "y">>,
                      <<"r", "a", "t", "t", "l", "e">>,
                      <<"t", "e", "e", "t", "h", "e", "r">>>>]
    >>

\* data_pipeline.CATEGORY_KEYWORDS, in declaration order
CATEGORY_KEYWORDS_B ==
    <<
      [category |-> "stroller",
       keywords |-> <<<<"s", "t", "r", "o", "l", "l", "e", "r">>,
                      <<"p", "r", "a", "m">>,
                      <<"p", "u", "s", "h", "c", "h", "a", "i", "r">>>>],
      [category |-> "crib",
       keywords |-> <<<<"c", "r", "i", "b">>,
                      <<"c", "o", "t">>,
                      <<"b", "a", "s", "s", "i", "n", "e", "t">>>>],
      [category |-> "baby bottle",
       keywords |-> <<<<"b", "o", "t", "t", "l", "e">>,
                      <<"f", "e", "e", "d", "i", "n", "g", " ", "b", "o", "t", "t", "l", "e">>>>],
      [category |-> "pacifier",
       keywords |-> <<<<"p", "a", "c", "i", "f", "i", "e", "r">>,
                      <<"s", "o", "o", "t", "h", "e", "r">>,
                      <<"d", "u", "m", "m", "y">>>>],
      [category |-> "diaper",
       keywords |-> <<<<"d", "i", "a", "p", "e", "r">>,
                      <<"n", "a", "p", "p", "y">>>>],
      [category |-> "onesie",
       keywords |-> <<<<"o", "n", "e", "s", "i", "e">>,
                      <<"b", "o", "d", "y", "s", "u", "i", "t">>>>],
      [category |-> "carrier",
       keywords |-> <<<<"c", "a", "r", "r", "i", "e", "r">>,
                      <<"w", "r", "a", "p">>,
                      <<"s", "l", "i", "n", "g">>>>],
      [category |-> "car seat",
       keywords |-> <<<<"c", "a", "r", " ", "s", "e", "a", "t">>,
                      <<"i", "n", "f", "a", "n", "t", " ", "s", "e", "a", "t">>>>],
      [category |-> "high chair",
       keywords |-> <<<<"h", "i", "g", "h", " ", "c", "h", "a", "i", "r">>>>]
    >>

\* `keyword in text`: keyword is a substring of text
Occurs(keyword, text) ==
    \E n \in 1..(Len(text) - Len(keyword) + 1) :
        SubSeq(text, n, n + Len(keyword) - 1) = keyword

\* `for category, keywords in mapping.items(): if ...: return category`, hits being
\* the entries whose test succeeds
FirstCategory(mapping, hits, default) ==
    IF hits = {} THEN default ELSE mapping[SeqMin(hits)].category

\* analytics.infer_category
infer_category_A(text) ==
    FirstCategory(CATEGORY_KEYWORDS_A,
                  {n \in DOMAIN CATEGORY_KEYWORDS_A :
                      \E k \in DOMAIN CATEGORY_KEYWORDS_A[n].keywords :
                          Occurs(CATEGORY_KEYWORDS_A[n].keywords[k], text)},
                  "unknown")

\* contains_any: the pattern is r"\\b(" + "|".join(...) + r")\\b"; in a raw string
\* "\\b" is the regular expression for a backslash followed by the letter b, so the
\* pattern matches a keyword written between two literal "\b"
contains_any(text, keywords) ==
    \E k \in DOMAIN keywords : Occurs(<<"\\", "b">> \o keywords[k] \o <<"\\", "b">>, text)

\* data_pipeline.infer_category
infer_category_B(text) ==
    FirstCategory(CATEGORY_KEYWORDS_B,
                  {n \in DOMAIN CATEGORY_KEYWORDS_B :
                      contains_any(text, CATEGORY_KEYWORDS_B[n].keywords)},
                  "None")

\* the words the texts of the model are made of
Words ==
    {<<"p", "r", "a", "m">>, <<"c", "o", "t">>, <<"c", "o", "t", "t", "o", "n">>,
     <<"w", "r", "a", "p">>, <<"\\", "b", "c", "o", "t", "\\", "b">>, <<"x">>}

\* " ".join(words)
RECURSIVE JoinWords(_)
JoinWords(ws) ==
    IF ws = <<>> THEN <<>>
    ELSE IF Len(ws) = 1 THEN ws[1]
    ELSE ws[1] \o <<" ">> \o JoinWords(Tail(ws))

\* normalized texts of at most MaxWords words
Texts == {JoinWords(ws) : ws \in SeqsUpTo(Words, MaxWords)}

InitCategory ==
    /\ OthersIdle
    /\ variant \in {"A", "B"}
    /\ pc = "infer_category"
    /\ arg \in Texts
    /\ ret = <<>>
    /\ err = "none"

InferCategoryA ==
    /\ pc = "infer_category" /\ variant = "A"
    /\ ret' = infer_category_A(arg)
    /\ pc' = "category"
    /\ UNCHANGED <<variant, arg, err, others>>

InferCategoryB ==
    /\ pc = "infer_category" /\ variant = "B"
    /\ ret' = infer_category_B(arg)
    /\ pc' = "category"
    /\ UNCHANGED <<variant, arg, err, others>>

\* a character that \w matches
IsWordChar(c) == ~IsSpace(c) /\ c # "\\" /\ c # "|"

\* keyword occurs in text as a whole word: no word character right before or after
WholeWord(keyword, text) ==
    \E n \in 1..(Len(text) - Len(keyword) + 1) :
        /\ SubSeq(text, n, n + Len(keyword) - 1) = keyword
        /\ n > 1 => ~IsWordChar(text[n - 1])
        /\ n + Len(keyword) <= Len(text) => ~IsWordChar(text[n + Len(keyword)])

\* C12: infer_category returns the first category, in declaration order, one of whose
\* keywords occurs in the text as a whole word, and "unknown" / None when there is none:
\* "pram" gives "stroller", and "cot" inside "cotton" does not give "crib".
C12_WholeWordCategory ==
    pc = "category" =>
      LET mapping == IF variant = "A" THEN CATEGORY_KEYWORDS_A ELSE CATEGORY_KEYWORDS_B
      IN  ret = FirstCategory(mapping,
                              {n \in DOMAIN mapping :
                                  \E k \in DOMAIN mapping[n].keywords :
                                      WholeWord(mapping[n].keywords[k], arg)},
                              IF variant = "A" THEN "unknown" ELSE "None")

C12_Witness ==
    /\ pc = "category" /\ variant = "A"
    /\ arg = <<"c", "o", "t", "t", "o", "n", " ", "w", "r", "a", "p">>
    /\ ret = "crib"

\* ---- price summaries: src/matching.py summarize_catalog_prices (variant A),
\* data_pipeline.py aggregate_prices (variant B)

MaxPriceRows == 4

\* a price cell as read: a number, a missing value, or a string that is no number
PriceCells == {Num(10), Num(20), Num(30), NaN, Text(0)}

PriceCatalogs == UNION {[1..n -> [product_id : 1..2, price : PriceCells]] : n \in 1..MaxPriceRows}

\* pd.to_numeric(errors="coerce")
ToNumeric(x) == IF x.t = "int" THEN x ELSE NaN

\* the n-th smallest of the prices of the rows in rows (price maps a row to a number)
NthSmallest(rows, price, n) ==
    CHOOSE p \in {price[r] : r \in rows} :
        /\ Cardinality({r \in rows : price[r] < p}) < n
        /\ n <= Cardinality({r \in rows : price[r] <= p})

\* min / median / max of a group, missing prices skipped; NaN for a group without prices
GroupStats(cat, product_id) ==
    LET rows  == {r \in DOMAIN cat : cat[r].product_id = product_id /\ cat[r].price # NaN}
        price == [r \in rows |-> cat[r].price.v]
        n     == Cardinality(rows)
    IN  IF rows = {}
        THEN [product_id |-> product_id, price_min |-> NaN, price_median |-> NaN,
              price_max |-> NaN]
        ELSE [product_id |-> product_id,
              price_min |-> Num(NthSmallest(rows, price, 1)),
              price_median |->
                  IF n % 2 = 1 THEN Num(NthSmallest(rows, price, (n + 1) \div 2))
                  ELSE Num((NthSmallest(rows, price, n \div 2)
                            + NthSmallest(rows, price, n \div 2 + 1)) \div 2),
              price_max |-> Num(NthSmallest(rows, price, n))]

\* groupby("product_id").agg(min, median, max).reset_index(): one row per product id
GroupByProduct(cat) ==
    LET ids == {cat[r].product_id : r \in DOMAIN cat}
    IN  [n \in 1..Cardinality(ids) |-> GroupStats(cat, Nth(ids, n))]

\* summarize_catalog_prices aggregates the price column as loaded: the median of a
\* column that holds a non-numeric string raises
summarize_catalog_prices(cat) ==
    IF \E r \in DOMAIN cat : IsStr(cat[r].price)
    THEN [raised |-> "TypeError", table |-> <<>>]
    ELSE [raised |-> "none", table |-> GroupByProduct(cat)]

\* aggregate_prices: the price column is coerced to numbers first
aggregate_prices(cat) ==
    [raised |-> "none",
     table |-> GroupByProduct([r \in DOMAIN cat |->
                                  [cat[r] EXCEPT !.price = ToNumeric(cat[r].price)]])]

InitPrices ==
    /\ OthersIdle
    /\ variant \in {"A", "B"}
    /\ pc = "prices"
    /\ arg \in PriceCatalogs
    /\ ret = <<>>
    /\ err = "none"

SummarizeCatalogPrices ==
    /\ pc = "prices" /\ variant = "A"
    /\ LET r == summarize_catalog_prices(arg)
       IN  ret' = r.table /\ err' = r.raised
           /\ pc' = IF r.raised = "none" THEN "priced" ELSE "price_error"
    /\ UNCHANGED <<variant, arg, others>>

AggregatePrices ==
    /\ pc = "prices" /\ variant = "B"
    /\ LET r == aggregate_prices(arg)
       IN  ret' = r.table /\ err' = r.raised
           /\ pc' = IF r.raised = "none" THEN "priced" ELSE "price_error"
    /\ UNCHANGED <<variant, arg, others>>

PricesCalled == pc \in {"priced", "price_error"}

\* the numeric prices of a product, by row
NumericRows(product_id) ==
    {r \in DOMAIN arg : arg[r].product_id = product_id /\ arg[r].price.t = "int"}

\* C13: for every product id the summary reports the min, median and max of that
\* product's numeric prices, missing and non-numeric prices being left out and never
\* counted as zero, and a non-numeric price does not make the summary fail.
C13_PricesSkipUnusable ==
    PricesCalled =>
      /\ err = "none"
      /\ {ret[n].product_id : n \in DOMAIN ret} = {arg[r].product_id : r \in DOMAIN arg}
      /\ \A n \in DOMAIN ret :
           LET rows == NumericRows(ret[n].product_id)
               half == Cardinality(rows)
           IN  IF rows = {}
               THEN ret[n].price_min = NaN /\ ret[n].price_median = NaN
                    /\ ret[n].price_max = NaN
               ELSE /\ \E r \in rows : arg[r].price = ret[n].price_min
                    /\ \E r \in rows : arg[r].price = ret[n].price_max
                    /\ \A r \in rows : /\ ret[n].price_min.v <= arg[r].price.v
                                       /\ arg[r].price.v <= ret[n].price_max.v
                    /\ 2 * Cardinality({r \in rows : arg[r].price.v < ret[n].price_median.v})
                         <= half
                    /\ 2 * Cardinality({r \in rows : arg[r].price.v > ret[n].price_median.v})
                         <= half

C13_Witness ==
    /\ pc = "price_error" /\ variant = "A" /\ err = "TypeError"
    /\ arg = <<[product_id |-> 1, price |-> Num(10)], [product_id |-> 1, price |-> Text(0)],
               [product_id |-> 1, price |-> Num(30)], [product_id |-> 1, price |-> Num(20)]>>

\* ---- ranking: src/analytics.py rank_top_items

MaxRankRows == 3
MaxTop == 2

\* products tables: row n has product key n
RankTables ==
    UNION {{[n \in 1..m |-> [product_key |-> n, engagement_score |-> e[n], post_count |-> c[n]]] :
                e \in [1..m -> {0, 5}], c \in [1..m -> {1, 2}]} : m \in 0..MaxRankRows}

\* row a comes before row b under sort_values(by=[...], ascending=False); rows with
\* equal keys keep the order of the table
Before(df, a, b) ==
    \/ df[a].engagement_score > df[b].engagement_score
    \/ /\ df[a].engagement_score = df[b].engagement_score
       /\ df[a].post_count > df[b].post_count
    \/ /\ df[a].engagement_score = df[b].engagement_score
       /\ df[a].post_count = df[b].post_count
       /\ a < b

\* the row at position n of the sorted table
SortedRow(df, n) ==
    CHOOSE a \in DOMAIN df : Cardinality({b \in DOMAIN df : Before(df, b, a)}) = n - 1

Min(a, b) == IF a <= b THEN a ELSE b

\* products_df.sort_values(by=["engagement_score", "post_count"], ascending=False)
\*            .head(top_n)
rank_by_engagement(products_df, top_n) ==
    LET before(a, b) ==
            \/ products_df[a].engagement_score > products_df[b].engagement_score
            \/ products_df[a].engagement_score = products_df[b].engagement_score /\ a < b
        row(n) == CHOOSE a \in DOMAIN products_df :
                      Cardinality({b \in DOMAIN products_df : before(b, a)}) = n - 1
    IN  [n \in 1..Min(top_n, Len(products_df)) |-> products_df[row(n)]]

rank_top_items(products_df, top_n) ==
    [n \in 1..Min(top_n, Len(products_df)) |-> products_df[SortedRow(products_df, n)]]

InitRank ==
    /\ OthersIdle
    /\ variant = "A"
    /\ pc = "rank"
    /\ arg \in [products_df : RankTables, top_n : 0..MaxTop]
    /\ ret = <<>>
    /\ err = "none"

\* main: top_products = rank_top_items(matched_with_prices, top_n=args.top_n)
RankTopItems ==
    /\ pc = "rank"
    /\ ret' = rank_top_items(arg.products_df, arg.top_n)
    /\ pc' = "ranked"
    /\ UNCHANGED <<variant, arg, err, others>>

\* C14: rank_top_items returns min(N, number of rows) rows, each an input row, ordered
\* by engagement_score descending and, among equal scores, by post_count descending;
\* no omitted row has a strictly higher engagement score than a returned row.
C14_TopN ==
    pc = "ranked" =>
      LET df == arg.products_df
          returned == {ret[n].product_key : n \in DOMAIN ret}
      IN  /\ Len(ret) = Min(arg.top_n, Len(df))
          /\ Cardinality(returned) = Len(ret)
          /\ \A n \in DOMAIN ret : ret[n].product_key \in DOMAIN df
                                   /\ ret[n] = df[ret[n].product_key]
          /\ \A a, b \in DOMAIN ret :
               a < b =>
                 \/ ret[a].engagement_score > ret[b].engagement_score
                 \/ /\ ret[a].engagement_score = ret[b].engagement_score
                    /\ ret[a].post_count >= ret[b].post_count
          /\ \A k \in DOMAIN df \ returned :
               \A n \in DOMAIN ret : df[k].engagement_score <= ret[n].engagement_score

C14_Witness ==
    /\ pc = "ranked" /\ arg.top_n = MaxTop /\ Len(arg.products_df) = MaxRankRows
    /\ arg.products_df[1].engagement_score = 0
    /\ arg.products_df[2] = [product_key |-> 2, engagement_score |-> 5, post_count |-> 1]
    /\ arg.products_df[3] = [product_key |-> 3, engagement_score |-> 5, post_count |-> 2]
    /\ ret = <<arg.products_df[3], arg.products_df[2]>>

\* ---- normalize_text: src/text_cleaning.py (variant A), src/utils_text.py (variant B)

MaxLen == 3

Alphabet == {"a", "A", " ", "\n", "\t"}

\* value.replace("\n", " ")
ReplaceNewlines(s) == [n \in DOMAIN s |-> IF s[n] = "\n" THEN " " ELSE s[n]]

\* str.lower()
Lower(s) == [n \in DOMAIN s |-> IF s[n] = "A" THEN "a" ELSE s[n]]

\* re.sub(r"\s+", " ", cleaned)
RECURSIVE CollapseSpaces(_)
CollapseSpaces(s) ==
    IF s = <<>> THEN <<>>
    ELSE IF IsSpace(Head(s)) THEN <<" ">> \o CollapseSpaces(LStrip(s))
    ELSE <<Head(s)>> \o CollapseSpaces(Tail(s))

\* normalize_text: "" for a value that is no string
normalize_text_unstripped(value) ==
    IF value.kind # "str" THEN <<>>
    ELSE CollapseSpaces(Lower(ReplaceNewlines(value.s)))

normalize_text(value) ==
    IF value.kind # "str" THEN <<>>
    ELSE CollapseSpaces(Lower(Strip(ReplaceNewlines(value.s))))

\* the values handed to normalize_text: strings, None, and a float (NaN)
RawValues == {Txt(x) : x \in SeqsUpTo(Alphabet, MaxLen)} \cup {Null, Field("float", <<>>)}

InitNormalize ==
    /\ OthersIdle
    /\ variant \in {"A", "B"}
    /\ pc = "normalize"
    /\ arg \in RawValues
    /\ ret = <<>>
    /\ err = "none"

\* text_cleaning.normalize_text(arg)
NormalizeA ==
    /\ pc = "normalize" /\ variant = "A"
    /\ ret' = <<normalize_text(arg)>>
    /\ pc' = "normalized"
    /\ UNCHANGED <<variant, arg, err, others>>

\* utils_text.normalize_text(arg): the same body
NormalizeB ==
    /\ pc = "normalize" /\ variant = "B"
    /\ ret' = <<normalize_text(arg)>>
    /\ pc' = "normalized"
    /\ UNCHANGED <<variant, arg, err, others>>

\* normalize_text applied to its own result
NormalizeAgain ==
    /\ pc = "normalized"
    /\ ret' = Append(ret, normalize_text(Txt(ret[1])))
    /\ pc' = "renormalized"
    /\ UNCHANGED <<variant, arg, err, others>>

MaxTags == 1

\* tokens: lower-case, title-cased and all-uppercase
Tokens == {<<"a", "a">>, <<"A", "a">>, <<"A", "A">>}

\* str.istitle() and str.isupper() for a token of letters
IsTitle(token) == token # <<>> /\ token[1] = "A" /\ \A n \in 2..Len(token) : token[n] = "a"
IsUpper(token) == token # <<>> /\ \A n \in DOMAIN token : token[n] = "A"

\* str.split(): the maximal runs of characters that are no whitespace
RECURSIVE Split(_)
Split(text) ==
    LET s == LStrip(text)
    IN  IF s = <<>> THEN <<>>
        ELSE LET stop == IF \E n \in DOMAIN s : IsSpace(s[n])
                         THEN SeqMin({n \in DOMAIN s : IsSpace(s[n])})
                         ELSE Len(s) + 1
             IN  <<SubSeq(s, 1, stop - 1)>> \o Split(SubSeq(s, stop, Len(s)))

\* the first token that is title-cased or all-uppercase, None when there is none
FirstCapitalized(tokens) ==
    LET capitalized == {n \in DOMAIN tokens : IsTitle(tokens[n]) \/ IsUpper(tokens[n])}
    IN  IF capitalized = {} THEN Null ELSE Txt(tokens[SeqMin(capitalized)])

\* detect_brand_and_model(text, known_brands)[1]
detect_model(text) == FirstCapitalized(Split(text))

\* prepare_social_products._extract: the text is caption_clean, the normalized caption,
\* joined with the hashtags found in the raw hashtag string; then model.fillna("")
extract_model(row) ==
    LET caption_clean == normalize_text(Txt(row.caption))
        text == JoinWords(<<caption_clean, JoinWords(row.hashtags_list)>>)
    IN  FillNa(detect_model(text), <<>>).s

\* posts: a caption of at most MaxWords tokens and at most MaxTags hashtags
ModelPosts ==
    [caption : {JoinWords(ws) : ws \in SeqsUpTo(Tokens, MaxWords)},
     hashtags_list : SeqsUpTo(Tokens, MaxTags)]

InitModel ==
    /\ OthersIdle
    /\ variant = "A"
    /\ pc = "detect"
    /\ arg \in ModelPosts
    /\ ret = <<>>
    /\ err = "none"

\* prepare_social_products: the model column of one post
DetectModel ==
    /\ pc = "detect"
    /\ ret' = extract_model(arg)
    /\ pc' = "detected"
    /\ UNCHANGED <<variant, arg, err, others>>

\* C19: the model of a post is the first whitespace-delimited token of its original,
\* non-normalized text (caption, then hashtags) that is title-cased or all-uppercase,
\* and is empty only when the original text has no such token.
C19_ModelFromOriginal ==
    pc = "detected" =>
      ret = FillNa(FirstCapitalized(Split(arg.caption) \o arg.hashtags_list), <<>>).s

C19_Witness ==
    /\ pc = "detected"
    /\ arg = [caption |-> <<"A", "A", " ", "a", "a">>, hashtags_list |-> <<>>]
    /\ ret = <<>>

InitPure ==
    \/ InitKey \/ InitCategory \/ InitPrices \/ InitRank \/ InitNormalize \/ InitModel

NextPure ==
    \/ MakeProductKey \/ PrepareKey
    \/ InferCategoryA \/ InferCategoryB
    \/ SummarizeCatalogPrices \/ AggregatePrices
    \/ RankTopItems
    \/ NormalizeA \/ NormalizeB \/ NormalizeAgain
    \/ DetectModel

SpecPure == InitPure /\ [][NextPure]_vars

\* the triple a row stands for: "unknown" for a null or absent category or brand, empty
\* for a null or absent model
TripleOf(row) ==
    LET d(f, v) == IF f.kind = "str" THEN f.s ELSE v
    IN  <<d(row.product_category, Unknown), d(row.brand, Unknown), d(row.model, <<>>)>>

KeyCalled == pc \in {"keyed", "key_error"}

\* C11: make_product_key returns the same key for two rows with the same (category,
\* brand, model) triple, puts "unknown" for a null category or brand and the empty
\* string for a null model, and returns different keys for triples whose models differ.
C11_KeyOfTriple ==
    KeyCalled =>
      /\ err = "none"
      /\ \A k \in DOMAIN ret :
           LET t == TripleOf(arg[k])
           IN  ret[k].key = Strip(t[1] \o Delimiter \o t[2] \o Delimiter \o t[3])
      /\ \A a, b \in DOMAIN ret :
           /\ TripleOf(arg[a]) = TripleOf(arg[b]) => ret[a].key = ret[b].key
           /\ TripleOf(arg[a])[3] # TripleOf(arg[b])[3] => ret[a].key # ret[b].key

C11_Witness ==
    /\ pc = "key_error" /\ err = "TypeError"
    /\ arg[1] = [product_category |-> Txt(<<"c">>), brand |-> Txt(<<"b">>),
                 model |-> Txt(<<"M">>)]
    /\ arg[2] = [product_category |-> Txt(<<"c">>), brand |-> Null, model |-> Txt(<<"M">>)]
    /\ ret[1].key = <<"c", " ", "|", " ", "b", " ", "|", " ", "M">>

----------------------------------------------------------------------------
\* ---- Runs of data_pipeline.pipeline in one process: the keyword list

MaxRuns == 3
MaxRunPosts == 2

\* `if keyword_list:` holds for a list with an element
Truthy(keyword_list) == keyword_list.kind = "list" /\ keyword_list.s # <<>>

\* the keyword_list argument: not passed (None), empty, or some keywords
KeywordLists ==
    {Null} \cup {Field("list", ks) :
                    ks \in {<<>>, <<<<"t", "o", "y">>>>, <<<<"c", "o", "t">>>>,
                            <<<<"t", "o", "y">>, <<"b", "i", "b">>>>}}

\* text blobs of cleaned posts; the pattern of contains_any finds a keyword only
\* between two literal "\b"
RunBlobs ==
    {<<"c", "o", "t">>,
     <<"\\", "b", "c", "o", "t", "\\", "b">>,
     <<"a", " ", "\\", "b", "t", "o", "y", "\\", "b">>,
     <<"\\", "b", "b", "i", "b", "\\", "b", " ", "\\", "b", "c", "o", "t", "\\", "b">>}

\* a pipeline whose runs without keyword_list fall back to the imported list
keywords_or_default(current, keyword_list) ==
    IF Truthy(keyword_list) THEN keyword_list.s ELSE DEFAULT_BABY_KEYWORDS

\* pipeline: the list the module holds after `if keyword_list: BABY_KEYWORDS = list(...)`
keywords_after(current, keyword_list) ==
    IF Truthy(keyword_list) THEN keyword_list.s ELSE current

\* filter_baby_posts: the rows whose text_blob contains a keyword of the list
filter_baby_posts(df, keywords) ==
    LET keep == {n \in DOMAIN df : contains_any(df[n], keywords)}
    IN  [k \in 1..Cardinality(keep) |-> df[Nth(keep, k)]]

InitRuns ==
    /\ variant = "B"
    /\ pc = "process"
    /\ i = 0
    /\ trace = <<>>
    /\ posts = <<>>
    /\ arg = <<>>
    /\ ret = <<>>
    /\ err = "none"
    /\ BABY_KEYWORDS = DEFAULT_BABY_KEYWORDS
    /\ pid_kind = "none" /\ catalog_df = <<>>
    /\ image_matches = [given |-> FALSE, rows |-> <<>>]
    /\ sim = <<>> /\ social_products = <<>>
    /\ match_results = <<>> /\ matched = <<>> /\ output = <<>>
    /\ byKey = <<>> /\ writes = <<>>
    /\ loading = "none" /\ columns = {} /\ reported = {}
    /\ cleaned = <<>> /\ trends = <<>>
    /\ caller = NoTables /\ index_base = 0

\* one run of pipeline(social_path, ..., keyword_list) up to baby_posts
Pipeline ==
    /\ pc = "process"
    /\ i < MaxRuns
    /\ \E social_clean \in SeqsUpTo(RunBlobs, MaxRunPosts), keyword_list \in KeywordLists :
          /\ posts' = social_clean
          /\ arg' = keyword_list
          /\ BABY_KEYWORDS' = keywords_after(BABY_KEYWORDS, keyword_list)
          /\ ret' = filter_baby_posts(social_clean, BABY_KEYWORDS')
          /\ trace' = Append(trace, keyword_list)
    /\ i' = i + 1
    /\ UNCHANGED <<variant, pc, err, pid_kind, catalog_df, image_matches, sim,
                   social_products, match_results, matched, output, byKey, writes,
                   loading, columns, reported, cleaned, trends, caller, index_base>>

NextRuns == Pipeline

SpecRuns == InitRuns /\ [][NextRuns]_vars

\* the keyword list the latest run with a non-empty keyword_list passed, the
\* default list when no run passed one
LastPassed ==
    LET passed == {n \in DOMAIN trace : Truthy(trace[n])}
    IN  IF passed = {} THEN DEFAULT_BABY_KEYWORDS ELSE trace[SeqMax(passed)].s

ImageIdOf(k) == FirstImageHit(social_products[k].post_ids, ImageLookup(image_matches))
BestOf(k) == ExtractOne(k, social_products[k].social_name, MatchNameColumn(catalog_df))
Resolved == 1..Len(match_results)

\* the catalog rows whose product id, written as a string, is x
RowsNamed(x) ==
    {c \in 1..Len(catalog_df) : Str(ProductIdColumn(catalog_df, pid_kind)[c]) = x}

\* variant B: the product id the image table gave to row k of the posts table
ImageGave(k) == ApplyImageMatches(posts, image_matches, pid_kind)[k].product_id
TextDone == variant = "B" /\ pc \in {"aggregate", "done"}

\* the text tier ran for the k-th group: no image hit, or none found in the catalog
TextTierRan(k) ==
    \/ ImageIdOf(k) = None
    \/ ImageRows(ProductIdColumn(catalog_df, pid_kind), ImageIdOf(k)) = {}

\* variant B: extractOne's result for row k of the posts table
BestOfPost(k) ==
    ExtractOne(matched[k].post_id, matched[k].text_blob, SearchBlobColumn(catalog_df))

\* the catalog id and the product key of a row of variant A's final table
OutCatalogId(o) == IF o.left.right = NaN THEN None ELSE o.left.right.catalog_id
OutProductKey(o) == o.left.left.product_key

\* C1: a group (post) with an entry in the image-match table whose text also matches
\* a different catalog entry at or above the threshold is resolved to the image-match
\* entry with score 100 and source image_match, never to the text match; a post that
\* got its product id from the image table is not re-assigned by the text tier.
C1_ImageBeatsText ==
    /\ variant = "A" =>
         \A k \in Resolved :
            LET x == ImageIdOf(k)
            IN  (/\ x # None
                 /\ RowsNamed(x) # {}
                 /\ Accepts(BestOf(k), similarity_threshold)
                 /\ BestOf(k).index \notin RowsNamed(x))
                => /\ match_results[k].source = "image_match"
                   /\ match_results[k].score = Pct(100)
                   /\ match_results[k].catalog_id = x
    /\ TextDone =>
         \A k \in DOMAIN matched :
            ImageGave(k) # NaN => matched[k].product_id = ImageGave(k)

\* C2 (as stated): every MatchResult is an image match with score 100 of a group
\* with a post in the image table, or a text match with threshold <= score < 100,
\* or a no_match with score 0 and no catalog id.
C2_ScoreBelow100 ==
    variant = "A" =>
      \A k \in Resolved :
        LET r == match_results[k]
        IN  \/ r.source = "image_match" /\ r.score = Pct(100) /\ ImageIdOf(k) # None
            \/ /\ r.source = "text_match"
               /\ Pct(similarity_threshold) <= r.score /\ r.score < Pct(100)
            \/ r.source = "no_match" /\ r.score = 0 /\ r.catalog_id = None

\* C2 (amended): as above, with threshold <= score <= 100 for a text match: a score
\* of 100 comes with image_match or with text_match.
C2_ResolvedMatch ==
    variant = "A" =>
      \A k \in Resolved :
        LET r == match_results[k]
        IN  \/ /\ r.source = "image_match" /\ r.score = Pct(100) /\ ImageIdOf(k) # None
               /\ r.catalog_id # None
            \/ /\ r.source = "text_match" /\ r.catalog_id # None
               /\ Pct(similarity_threshold) <= r.score /\ r.score <= Pct(100)
            \/ r.source = "no_match" /\ r.score = 0 /\ r.catalog_id = None

C2_Witness ==
    /\ variant = "A" /\ pc = "done"
    /\ \E k \in Resolved : match_results[k].source = "text_match"
                           /\ match_results[k].score = Pct(100)
    /\ \E k \in Resolved : match_results[k].source = "image_match"

\* C3: in the text tier a best score of exactly the threshold is accepted and carried
\* by the match, and a best score of exactly threshold - 1 gives no match (no catalog
\* id, score 0), in match_products_to_catalog and in fuzzy_match_product.
C3_ThresholdInclusive ==
    /\ variant = "A" =>
         \A k \in Resolved :
            TextTierRan(k) /\ BestOf(k) # NoResult =>
               /\ BestOf(k).score = Pct(similarity_threshold) =>
                    /\ match_results[k].source = "text_match"
                    /\ match_results[k].score = Pct(similarity_threshold)
                    /\ match_results[k].catalog_id # None
               /\ BestOf(k).score = Pct(similarity_threshold - 1) =>
                    /\ match_results[k].source = "no_match"
                    /\ match_results[k].score = 0
                    /\ match_results[k].catalog_id = None
    /\ TextDone =>
         \A k \in DOMAIN matched :
            ImageGave(k) = NaN /\ BestOfPost(k) # NoResult =>
               /\ BestOfPost(k).score = Pct(threshold) =>
                    /\ matched[k].product_id # NaN
                    /\ matched[k].text_match_score = Pct(threshold)
               /\ BestOfPost(k).score = Pct(threshold - 1) =>
                    /\ matched[k].product_id = NaN
                    /\ matched[k].text_match_score = 0

C3_Witness ==
    /\ variant = "A" /\ pc = "done"
    /\ \E k \in Resolved : /\ TextTierRan(k)
                           /\ BestOf(k).score = Pct(similarity_threshold)
                           /\ match_results[k].source = "text_match"
    /\ \E k \in Resolved : /\ TextTierRan(k) /\ BestOf(k) # NoResult
                           /\ BestOf(k).score = Pct(similarity_threshold - 1)
                           /\ match_results[k].source = "no_match"

\* C4: a group with a post in the image-match table adopts the product id mapped to
\* the first such post of its post_ids, with score 100 and source image_match,
\* whatever the catalog holds.
C4_ImageUnconditional ==
    variant = "A" =>
      \A k \in Resolved :
        ImageIdOf(k) # None =>
           /\ match_results[k].source = "image_match"
           /\ match_results[k].score = Pct(100)
           /\ match_results[k].catalog_id = ImageIdOf(k)

\* C5: resolution ends without an error for any groups (none included), and a group
\* with an empty catalog or an empty text and no image hit resolves to no_match.
C5_NeverRaises ==
    /\ err = "none"
    /\ variant = "A" =>
         \A k \in Resolved :
            (catalog_df = <<>> \/ social_products[k].social_name = "") /\ ImageIdOf(k) = None
            => match_results[k] = MatchResult(social_products[k].product_key, None, NoName,
                                              0, "no_match")
    /\ TextDone =>
         \A k \in DOMAIN matched :
            (catalog_df = <<>> \/ matched[k].text_blob = "") /\ ImageGave(k) = NaN
            => matched[k].product_id = NaN /\ matched[k].text_match_score = 0

\* C6 (as stated): no two rows of the final table carry the same resolved catalog
\* product id.
C6_OneRowPerCatalogId ==
    pc = "done" =>
      \A a, b \in DOMAIN output :
        a # b =>
          IF variant = "A"
          THEN OutCatalogId(output[a]) = None
               \/ OutCatalogId(output[a]) # OutCatalogId(output[b])
          ELSE output[a].product_id # output[b].product_id

\* C6 (amended): variant A's final table has one row per product key, and two rows
\* may carry the same catalog id; variant B's has one row per product_id value.
C6_OneRowPerKey ==
    pc = "done" =>
      /\ \A a, b \in DOMAIN output :
           a # b =>
             IF variant = "A"
             THEN OutProductKey(output[a]) # OutProductKey(output[b])
             ELSE output[a].product_id # output[b].product_id
      /\ variant = "A" =>
           {OutProductKey(output[a]) : a \in DOMAIN output}
             = {social_products[g].product_key : g \in DOMAIN social_products}

C6_Witness ==
    /\ variant = "A" /\ pc = "done"
    /\ \E a, b \in DOMAIN output :
         /\ a # b
         /\ OutCatalogId(output[a]) # None
         /\ OutCatalogId(output[a]) = OutCatalogId(output[b])
         /\ output[a].right # NaN

C16_TextTierMaximum ==
    /\ variant = "A" =>
         \A k \in Resolved :
            match_results[k].source = "text_match" =>
               LET r == match_results[k]
                   c == r.catalog_name
               IN  /\ r.score = BestOf(k).score
                   /\ c \in DOMAIN catalog_df
                   /\ r.catalog_id = Str(ProductIdColumn(catalog_df, pid_kind)[c])
                   /\ Scorer(k, social_products[k].social_name,
                             MatchNameColumn(catalog_df)[c]) = BestOf(k).score
    /\ TextDone =>
         \A k \in DOMAIN matched :
            ImageGave(k) = NaN /\ matched[k].product_id # NaN =>
               /\ matched[k].text_match_score = BestOfPost(k).score
               /\ \E c \in RowsNamed(matched[k].product_id) :
                     Scorer(matched[k].post_id, matched[k].text_blob,
                            SearchBlobColumn(catalog_df)[c]) = BestOfPost(k).score

C16_Witness ==
    /\ variant = "A" /\ pc = "done" /\ index_base = 1
    /\ \E k \in Resolved :
         /\ match_results[k].source = "text_match"
         /\ BestOf(k).score = Pct(100)
         /\ Scorer(k, social_products[k].social_name,
                   MatchNameColumn(catalog_df)[match_results[k].catalog_name])
              < Pct(similarity_threshold)

\* C17: match_products_to_catalog, summarize_catalog_prices, attach_price_info,
\* apply_image_matches, apply_text_matches and aggregate_prices leave the catalog, the
\* image-match table and the posts or groups table of the caller as they were: same
\* rows, same columns, same values; derived columns exist only on copies.
C17_InputsReadOnly ==
    [][/\ caller' = caller
       /\ catalog_df' = catalog_df
       /\ image_matches' = image_matches
       /\ posts' = posts
       /\ social_products' = social_products]_vars

C17_Witness ==
    /\ variant = "B" /\ pc = "text"
    /\ ~image_matches.given
    /\ posts # <<>>
    /\ "product_id" \in caller.posts

\* the posts behind a row of variant A's final table
OutPostIds(o) == o.left.left.post_ids

\* C20: every post is counted once: it contributes its likes to at most one output
\* row, so the sum of total_likes over the aggregated rows never exceeds the sum of the
\* likes of the input posts, and the sum of the post counts never exceeds the number
\* of distinct posts, for any posts table and any image-match table.
C20_PostCountedOnce ==
    pc = "done" =>
      IF variant = "A"
      THEN /\ \A a, b \in DOMAIN output :
                a # b => \A u \in DOMAIN OutPostIds(output[a]) :
                            \A w \in DOMAIN OutPostIds(output[b]) :
                               OutPostIds(output[a])[u] # OutPostIds(output[b])[w]
           /\ Sum([a \in DOMAIN output |-> Len(OutPostIds(output[a]))], DOMAIN output)
                <= Cardinality(UNION {{social_products[g].post_ids[u] :
                                          u \in DOMAIN social_products[g].post_ids} :
                                      g \in DOMAIN social_products})
      ELSE /\ Sum([a \in DOMAIN output |-> output[a].num_posts], DOMAIN output)
                <= Cardinality({posts[u].post_id : u \in DOMAIN posts})
           /\ Sum([a \in DOMAIN output |-> output[a].total_likes], DOMAIN output)
                <= Sum([u \in DOMAIN posts |-> posts[u].likes], DOMAIN posts)

C20_Witness ==
    /\ variant = "B" /\ pc = "done"
    /\ Len(posts) = 1
    /\ Len(output) = 2
    /\ output[1].num_posts + output[2].num_posts = 2
    /\ output[1].total_likes + output[2].total_likes = 2 * posts[1].likes

\* the source of the match behind a row of variant A's final table
OutSource(o) == o.left.right.source

\* C21: after match_products_to_catalog, summarize_catalog_prices and
\* attach_price_info every output row with source image_match or text_match carries
\* the price statistics of the catalog rows whose product id is its catalog_id,
\* for textual, numeric and synthesized product ids alike; every no_match row has
\* null price fields; the join adds or drops no product-key row.
C21_MatchedRowsPriced ==
    variant = "A" =>
      /\ err # "ValueError"
      /\ pc = "done" =>
           /\ Len(output) = Len(social_products)
           /\ \A a \in DOMAIN output :
                /\ OutProductKey(output[a]) = social_products[a].product_key
                /\ OutSource(output[a]) \in {"image_match", "text_match"} =>
                     /\ output[a].right # NaN
                     /\ output[a].right.rows # {}
                     /\ output[a].right.rows = RowsNamed(OutCatalogId(output[a]))
                /\ OutSource(output[a]) = "no_match" => output[a].right = NaN

C21_Witness ==
    /\ variant = "A" /\ pc = "error" /\ err = "ValueError"
    /\ pid_kind = "int"
    /\ \E k \in DOMAIN matched : matched[k].right.source = "text_match"
====
